---- MODULE Spec2Model ----
(***************************************************************************)
(* Model of the radiology batch pipeline: the useUpload hook (item list,   *)
(* partition into batches, the concurrency-limited scheduler of            *)
(* startAnalysis), ImageProcessor.createBatches, and the retry loop of     *)
(* RadiologyAPIClient.makeAPIRequest.                                      *)
(*                                                                         *)
(* JavaScript strings that the code inspects (error messages) are modelled *)
(* as sequences of tokens; String.includes is token membership.  Optional  *)
(* fields (result?, error?, startTime?, ...) are sequences of length 0/1.  *)
(* Batch objects live in a heap because the scheduler mutates the very     *)
(* objects that state.batches references.  Date.now() is a clock value     *)
(* where the code compares what it builds from it (the batch identifiers); *)
(* time stamps the code only stores are recorded as taken (Stamp) or not.  *)
(***************************************************************************)
EXTENDS Integers, Sequences, FiniteSets, TLC

\* ---------------------------------------------------------------- bounds
MaxOps == 3
MaxTime == 1
MaxPartLen == 7
MaxPartCap == 3
MaxCallImages == 21
MaxTextLen == 4

\* ------------------------------------------------------ program constants
batchSize == 20
maxImages == 200
maxConcurrent == 3
MAX_RETRIES == 3

\* ---------------------------------------------------------------- helpers
None == <<>>
Some(x) == <<x>>

Min(a, b) == IF a < b THEN a ELSE b

RECURSIVE Pow2(_)
Pow2(n) == IF n = 0 THEN 1 ELSE 2 * Pow2(n - 1)

Range(s) == {s[i] : i \in 1..Len(s)}

\* a slice that takes its end index as inclusive
SliceInclusive(s, from, to) == SubSeq(s, from + 1, Min(to + 1, Len(s)))

\* Array.prototype.slice(from, to) with 0-based, end-exclusive indices
Slice(s, from, to) == SubSeq(s, from + 1, Min(to, Len(s)))

\* String.prototype.includes on a tokenised message
Includes(message, token) == \E i \in 1..Len(message) : message[i] = token

\* Math.round(x / y * 100) for naturals x, y with y > 0
RoundPercent(x, y) == (200 * x + y) \div (2 * y)

\* a stored Date.now() value, and a stored difference of two of them
Stamp == "stamp"
Elapsed == "elapsed"

\* ------------------------------------------------- ImageProcessor (pure)
NewBatch(index, t, batchImages) ==
    [id |-> [n |-> index, t |-> t],
     images |-> batchImages,
     status |-> "pending",
     result |-> None,
     error |-> None,
     startTime |-> None,
     endTime |-> None]

RECURSIVE createBatchesLoop(_, _, _, _, _)
createBatchesLoop(validImages, size, i, t, batches) ==
    IF i < Len(validImages)
    THEN createBatchesLoop(validImages, size, i + size, t,
            Append(batches, NewBatch((i \div size) + 1, t, Slice(validImages, i, i + size))))
    ELSE batches

createBatches(imgs, size, t) ==
    createBatchesLoop(SelectSeq(imgs, LAMBDA img : img.status # "error"), size, 0, t, <<>>)

\* ------------------------------------------------ RadiologyAPIClient (pure)
\* What one fetch exchange can come to.  Texts are token sequences.
HttpError(status, statusText, body) ==
    [kind |-> "http", status |-> status, statusText |-> statusText, body |-> body]
Rejected(name, message) == [kind |-> "reject", name |-> name, message |-> message]
Answer(content) == [kind |-> "ok", content |-> content]
BadJson == [kind |-> "badjson"]

\* The error makeAPIRequest's catch block sees for a failed exchange
AttemptError(outcome) ==
    CASE outcome.kind = "http" ->
            [name |-> "Error",
             message |-> <<"API request failed:", ToString(outcome.status),
                           outcome.statusText, "-">> \o outcome.body]
      [] outcome.kind = "reject" -> [name |-> outcome.name, message |-> outcome.message]
      [] outcome.kind = "badjson" ->
            [name |-> "SyntaxError", message |-> <<"Unexpected token", "in JSON">>]

isRetryableError(err) ==
    IF err.name = "AbortError" THEN FALSE
    ELSE IF Includes(err.message, "429") THEN TRUE
    ELSE IF Includes(err.message, "502") THEN TRUE
    ELSE IF Includes(err.message, "503") THEN TRUE
    ELSE IF Includes(err.message, "network") THEN TRUE
    ELSE FALSE

\* the test with the retry budget off by one
ShouldRetryOnceMore(retryCount, err) == retryCount <= MAX_RETRIES /\ isRetryableError(err)

\* the test of makeAPIRequest's catch block
ShouldRetry(retryCount, err) == retryCount < MAX_RETRIES /\ isRetryableError(err)

\* the argument of this.delay(...) before the retry
BackoffDelay(retryCount) == Pow2(retryCount) * 1000

\* --- response parsing.  A text is a sequence of tokens; a heading is one token.
FindingsHeadings == {"DETAILED FINDINGS:", "FINDINGS:", "OBSERVATIONS:"}
RecommendationsHeadings == {"RECOMMENDATIONS:", "NEXT STEPS:", "FOLLOW-UP:"}
ConfidenceHeadings == {"CONFIDENCE:", "CERTAINTY:", "DIAGNOSTIC CONFIDENCE:"}
TechnicalNotesHeadings == {"TECHNICAL NOTES:", "TECHNICAL COMMENTS:", "IMAGE QUALITY:"}

\* tokens at which the lookahead of each pattern succeeds (besides end of text)
FindingsStops == {"CLINICAL SIGNIFICANCE:", "RECOMMENDATIONS:", "TECHNICAL NOTES:"}
RecommendationsStops == {"TECHNICAL NOTES:", "CONFIDENCE:"}
ConfidenceStops == {"TECHNICAL NOTES:"}

\* case-insensitive matching: the lower-case spellings used in the texts
Upper(token) ==
    CASE token = "findings:" -> "FINDINGS:"
      [] token = "recommendations:" -> "RECOMMENDATIONS:"
      [] OTHER -> token

\* least element of a non-empty set of positions
First(positions) == CHOOSE i \in positions : \A j \in positions : i <= j

\* end (exclusive, 1-based) of a lazy capture that starts at position from
CaptureEnd(text, from, stops) ==
    LET ends == {i \in from..Len(text) : Upper(text[i]) \in stops}
    IN  IF ends = {} THEN Len(text) + 1 ELSE First(ends)

\* String.prototype.match with a /g pattern: every full match, left to right
RECURSIVE MatchAll(_, _, _, _, _)
MatchAll(text, from, headings, stops, toEnd) ==
    LET starts == {i \in from..Len(text) : Upper(text[i]) \in headings}
    IN  IF starts = {} THEN <<>>
        ELSE LET start == First(starts)
                 stop == IF toEnd THEN Len(text) + 1
                         ELSE CaptureEnd(text, start + 1, stops)
             IN  <<SubSeq(text, start, stop - 1)>>
                     \o MatchAll(text, stop, headings, stops, toEnd)

\* sections[key] = match[1].trim() when match && match[1]
Section(text, headings, stops, toEnd) ==
    LET match == MatchAll(text, 1, headings, stops, toEnd)
    IN  IF Len(match) >= 2 /\ match[2] # <<>> THEN Some(match[2]) ELSE None

extractSections(text) ==
    [findings |-> Section(text, FindingsHeadings, FindingsStops, FALSE),
     recommendations |-> Section(text, RecommendationsHeadings, RecommendationsStops, FALSE),
     confidence |-> Section(text, ConfidenceHeadings, ConfidenceStops, FALSE),
     technicalNotes |-> Section(text, TechnicalNotesHeadings, {}, TRUE)]

\* a field without its fallback
OrEmpty(a, b) == IF a # None THEN a[1] ELSE <<>>

\* a || b on an optional string: b when a is undefined or empty
OrElse(a, b) == IF a # None /\ a[1] # <<>> THEN a[1] ELSE b

\* a fallback that keeps the whole text
WholeTextFallback(analysisText) == analysisText \o <<"...">>

\* analysisText.substring(0, 1000) + '...'
FindingsFallback(analysisText) ==
    SubSeq(analysisText, 1, Min(1000, Len(analysisText))) \o <<"...">>

parseAnalysisResponse(analysisText, batchId, imageCount, processingTime) ==
    LET sections == extractSections(analysisText)
    IN  [batchId |-> batchId,
         imageCount |-> imageCount,
         findings |-> OrElse(sections.findings, FindingsFallback(analysisText)),
         recommendations |-> OrElse(sections.recommendations,
                                    <<"Please refer to detailed findings above.">>),
         confidence |-> OrElse(sections.confidence, <<"Standard diagnostic confidence">>),
         technicalNotes |-> sections.technicalNotes,
         processingTime |-> processingTime]

\* a failure response that drops the error
FailureWithoutError(message) == [success |-> FALSE, result |-> None, error |-> None]

Failure(message) ==
    [success |-> FALSE, result |-> None,
     error |-> Some([code |-> "ANALYSIS_FAILED", message |-> message])]

\* analyzeImageBatch without its checks
BatchSizeUnchecked(imageCount) == None

\* analyzeImageBatch, lines 301-308: the checks made before any exchange
BatchSizeError(imageCount) ==
    IF imageCount = 0 THEN Some(<<"No images provided for analysis">>)
    ELSE IF imageCount > 20 THEN Some(<<"Batch size exceeds maximum limit of 20 images">>)
    ELSE None

\* analyzeImageBatch without its test of the content
AnalysisOfAnyAnswer(content, batchId, imageCount, processingTime) ==
    [success |-> TRUE,
     result |-> Some(parseAnalysisResponse(IF content = None THEN <<>> ELSE content[1],
                                           batchId, imageCount, processingTime)),
     error |-> None]

\* analyzeImageBatch once makeAPIRequest has returned the parsed body
AnalysisOfAnswer(content, batchId, imageCount, processingTime) ==
    IF content = None \/ content[1] = <<>>
    THEN Failure(<<"No analysis content received from API">>)
    ELSE [success |-> TRUE,
          result |-> Some(parseAnalysisResponse(content[1], batchId, imageCount,
                                                processingTime)),
          error |-> None]

\* ------------------------------------------------------------------ state
VARIABLES
    images,            \* state.images: sequence of [id, status]
    batches,           \* state.batches: sequence of references into heap
    isProcessing,      \* state.isProcessing
    processingStatus,  \* state.processingStatus
    report,            \* state.report (None = null)
    error,             \* state.error (None = null)
    heap,              \* the ImageBatch objects, indexed by reference
    processingRef,     \* processingRef.current
    run,               \* locals of the startAnalysis invocation in progress (or the last one)
    pc,                \* where that invocation is suspended
    probe,             \* loop index i of the settlement probe (1-based)
    tasks,             \* per admitted batch reference: where its processBatch promise stands
    now,               \* Date.now()
    nextImageId,       \* ids handed out by generateImageId are unique
    ops,               \* number of hook calls made so far
    env,               \* the surroundings of this behaviour: the sizes of the file
                       \* lists the caller uploads, the outcomes the service produces
    route              \* the POST /api/analyze request being handled (None = none)

vars == <<images, batches, isProcessing, processingStatus, report, error, heap,
          processingRef, run, pc, probe, tasks, now, nextImageId, ops, env, route>>

stateVars == <<images, batches, isProcessing, processingStatus, report, error>>
runVars == <<processingRef, run, pc, probe, tasks>>

ZeroStatus(total) ==
    [totalBatches |-> total, completedBatches |-> 0, failedBatches |-> 0,
     overallProgress |-> 0, currentBatch |-> None]

NoRun ==
    [batches |-> <<>>, imagesLength |-> 0, startTime |-> Stamp, batchQueue |-> <<>>,
     activeBatches |-> <<>>, processedBatches |-> <<>>, completedCount |-> 0,
     failedCount |-> 0]

InitIn(surroundings) ==
    /\ env = surroundings
    /\ images = <<>>
    /\ batches = <<>>
    /\ isProcessing = FALSE
    /\ processingStatus = ZeroStatus(0)
    /\ report = None
    /\ error = None
    /\ heap = <<>>
    /\ processingRef = FALSE
    /\ run = NoRun
    /\ pc = "idle"
    /\ probe = 0
    /\ tasks = <<>>
    /\ now = 0
    /\ nextImageId = 1
    /\ ops = 0
    /\ route = None

\* References of the objects a fresh array of batch records gets in the heap
Alloc(h, records) == [i \in 1..Len(records) |-> Len(h) + i]

\* ------------------------------------------------------------ hook: items
\* One file list handed to uploadImages: n files, of which those at the
\* positions in bad fail validateImage.
processUploadedFiles(n, bad, firstId) ==
    [i \in 1..n |-> [id |-> firstId + i - 1,
                     status |-> IF i \in bad THEN "error" ELSE "pending"]]

\* a limit test that lets one item too many through
OverLimitByTwo(totalImages) == totalImages > maxImages + 1

\* the test of the total against the limit of 200
OverLimit(totalImages) == totalImages > maxImages

uploadImages(n, bad) ==
    LET newImages == processUploadedFiles(n, bad, nextImageId)
        totalImages == Len(images) + Len(newImages)
        allImages == images \o newImages
        newBatches == createBatches(allImages, batchSize, now)
    IN  /\ ops < MaxOps
        /\ ops' = ops + 1
        /\ nextImageId' = nextImageId + n
        /\ IF OverLimit(totalImages)
           THEN /\ error' = Some(<<"Cannot upload more than 200 images.", "Current:",
                                   ToString(Len(images)), "Attempting to add:",
                                   ToString(Len(newImages))>>)
                /\ UNCHANGED <<images, batches, processingStatus, heap>>
           ELSE /\ error' = None
                /\ images' = allImages
                /\ batches' = Alloc(heap, newBatches)
                /\ heap' = heap \o newBatches
                /\ processingStatus' =
                      [processingStatus EXCEPT !.totalBatches = Len(newBatches)]
        /\ UNCHANGED <<isProcessing, report, now, env, route>>
        /\ UNCHANGED runVars

removeImage(imageId) ==
    LET remainingImages == SelectSeq(images, LAMBDA img : img.id # imageId)
        newBatches == createBatches(remainingImages, batchSize, now)
    IN  /\ ops < MaxOps
        /\ ops' = ops + 1
        /\ images' = remainingImages
        /\ batches' = Alloc(heap, newBatches)
        /\ heap' = heap \o newBatches
        /\ processingStatus' = [processingStatus EXCEPT !.totalBatches = Len(newBatches)]
        /\ error' = None
        /\ UNCHANGED <<isProcessing, report, now, nextImageId, env, route>>
        /\ UNCHANGED runVars

clearAllImages ==
    /\ ops < MaxOps
    /\ ops' = ops + 1
    /\ images' = <<>>
    /\ batches' = <<>>
    /\ isProcessing' = FALSE
    /\ processingStatus' = ZeroStatus(0)
    /\ report' = None
    /\ error' = None
    /\ UNCHANGED <<heap, now, nextImageId, env, route>>
    /\ UNCHANGED runVars

\* a reset that only puts the status back
ResetStatusOnly(batch) == [batch EXCEPT !.status = "pending"]

\* the copy resetAnalysis makes of a batch
ResetBatch(batch) ==
    [batch EXCEPT !.status = "pending", !.result = None, !.error = None,
                  !.startTime = None, !.endTime = None]

resetAnalysis ==
    LET copies == [i \in 1..Len(batches) |-> ResetBatch(heap[batches[i]])]
    IN  /\ ops < MaxOps
        /\ ops' = ops + 1
        /\ report' = None
        /\ error' = None
        /\ processingStatus' = ZeroStatus(Len(batches))
        /\ batches' = Alloc(heap, copies)
        /\ heap' = heap \o copies
        /\ UNCHANGED <<images, isProcessing, now, nextImageId, env, route>>
        /\ UNCHANGED runVars

\* ------------------------------------------------- hook: the report helper
RECURSIVE Join(_, _)
Join(strings, separator) ==
    IF strings = <<>> THEN <<>>
    ELSE IF Len(strings) = 1 THEN strings[1]
    ELSE strings[1] \o <<separator>> \o Join(Tail(strings), separator)

\* xs.map(f).filter(Boolean) for optional, possibly empty strings
RECURSIVE Truthy(_)
Truthy(options) ==
    IF options = <<>> THEN <<>>
    ELSE IF options[1] # None /\ options[1][1] # <<>>
         THEN <<options[1][1]>> \o Truthy(Tail(options))
         ELSE Truthy(Tail(options))

\* a report that is an error as soon as a batch failed
ReportStatusStrict(failedLength, batchesLength) ==
    IF failedLength > 0 THEN "error" ELSE "completed"

\* status: failedBatches.length === batches.length ? 'error' : 'completed'
ReportStatus(failedLength, batchesLength) ==
    IF failedLength = batchesLength THEN "error" ELSE "completed"

generateConsolidatedReport(batchRecs, totalImages, startTime, endTime) ==
    LET completedBatches == SelectSeq(batchRecs, LAMBDA b : b.status = "completed")
        failedBatches == SelectSeq(batchRecs, LAMBDA b : b.status = "error")
        allFindings == Truthy([i \in 1..Len(completedBatches) |->
                          IF completedBatches[i].result = None THEN None
                          ELSE Some(completedBatches[i].result[1].findings)])
        allRecommendations == Truthy([i \in 1..Len(completedBatches) |->
                          IF completedBatches[i].result = None THEN None
                          ELSE Some(completedBatches[i].result[1].recommendations)])
    IN  [id |-> endTime,
         totalImages |-> totalImages,
         totalBatches |-> Len(batchRecs),
         completedBatches |-> Len(completedBatches),
         failedBatches |-> Len(failedBatches),
         overallFindings |->
            IF Len(allFindings) > 0
            THEN <<"Analysis of", ToString(totalImages), "medical images across",
                   ToString(Len(completedBatches)), "batches:">>
                 \o Join(allFindings, "--- BATCH SEPARATOR ---")
            ELSE <<"No findings available due to processing errors.">>,
         detailedFindings |-> [i \in 1..Len(completedBatches) |-> completedBatches[i].result],
         recommendations |-> allRecommendations,
         confidence |-> IF Len(completedBatches) > 0
                        THEN "Standard diagnostic analysis"
                        ELSE "Limited due to processing errors",
         processingStartTime |-> startTime,
         processingEndTime |-> endTime,
         status |-> ReportStatus(Len(failedBatches), Len(batchRecs))]

\* ---------------------------------------------- hook: startAnalysis pieces
\* The values an atomic stretch of startAnalysis works on, threaded through
\* the operators below and written back by Commit.
Cur ==
    [heap |-> heap, batches |-> batches, isProcessing |-> isProcessing,
     ps |-> processingStatus, report |-> report, processingRef |-> processingRef,
     run |-> run, pc |-> pc, probe |-> probe, tasks |-> tasks]

Commit(m) ==
    /\ heap' = m.heap
    /\ batches' = m.batches
    /\ isProcessing' = m.isProcessing
    /\ processingStatus' = m.ps
    /\ report' = m.report
    /\ processingRef' = m.processingRef
    /\ run' = m.run
    /\ pc' = m.pc
    /\ probe' = m.probe
    /\ tasks' = m.tasks

\* A processBatch promise: where it is suspended, makeAPIRequest's retryCount,
\* the delays it has asked for, how its latest exchange ended, who called
\* analyzeImageBatch and what it returned.
NewTask ==
    [pc |-> "prepare", retryCount |-> 0, delays |-> <<>>, outcome |-> None,
     caller |-> "processBatch", response |-> None]

RemoveAt(s, i) == SubSeq(s, 1, i - 1) \o SubSeq(s, i + 1, Len(s))

\* processBatch up to its first await: the batch is marked and its payload
\* preparation started
processBatchBegin(m, b) ==
    [m EXCEPT !.ps.currentBatch = Some(m.heap[b].id),
              !.heap[b].status = "processing",
              !.heap[b].startTime = Some(Stamp),
              !.tasks = (b :> NewTask) @@ m.tasks]

\* the admission loop with the comparison off by one
CanAdmitOneMore(queueLength, activeLength) ==
    queueLength > 0 /\ activeLength <= maxConcurrent

\* the condition of the admission loop
CanAdmit(queueLength, activeLength) == queueLength > 0 /\ activeLength < maxConcurrent

\* a queue served from its end
ShiftLast(queue) ==
    [batch |-> queue[Len(queue)], rest |-> SubSeq(queue, 1, Len(queue) - 1)]

\* batchQueue.shift(): the element taken and the queue left
Shift(queue) == [batch |-> Head(queue), rest |-> Tail(queue)]

RECURSIVE AdmitLoop(_)
AdmitLoop(m) ==
    IF CanAdmit(Len(m.run.batchQueue), Len(m.run.activeBatches))
    THEN LET shifted == Shift(m.run.batchQueue)
         IN  AdmitLoop([processBatchBegin(m, shifted.batch) EXCEPT
                           !.run.batchQueue = shifted.rest,
                           !.run.activeBatches = Append(@, shifted.batch)])
    ELSE m

\* an end of run that leaves the guard set
FinishKeepingGuard(m) ==
    LET processed == [i \in 1..Len(m.run.processedBatches) |->
                         m.heap[m.run.processedBatches[i]]]
        consolidatedReport ==
            generateConsolidatedReport(processed, m.run.imagesLength, m.run.startTime, Stamp)
    IN  [m EXCEPT !.isProcessing = FALSE,
                  !.report = Some(consolidatedReport),
                  !.ps.currentBatch = None,
                  !.ps.overallProgress = 100,
                  !.pc = "idle"]

\* report generation, the final setState and the finally block
Finish(m) ==
    LET processed == [i \in 1..Len(m.run.processedBatches) |->
                         m.heap[m.run.processedBatches[i]]]
        consolidatedReport ==
            generateConsolidatedReport(processed, m.run.imagesLength, m.run.startTime, Stamp)
    IN  [m EXCEPT !.isProcessing = FALSE,
                  !.report = Some(consolidatedReport),
                  !.ps.currentBatch = None,
                  !.ps.overallProgress = 100,
                  !.processingRef = FALSE,
                  !.pc = "idle"]

\* a probe that takes every promise for settled
IsSettledAlways(task) == task.pc \in {"prepare", "fetch", "backoff", "settled"}

\* whether the probe of a promise finds it settled
IsSettled(task) == task.pc = "settled"

RECURSIVE SchedulerLoop(_)
RECURSIVE ProbeFrom(_, _)

\* The probe loop from index i downwards.  A settled promise wins its race in
\* microtasks and is spliced out at once; at a pending one the loop waits for
\* the zero-delay timer or for that promise.
ProbeFrom(m, i) ==
    IF i = 0 THEN SchedulerLoop([m EXCEPT !.probe = 0])
    ELSE IF IsSettled(m.tasks[m.run.activeBatches[i]])
    THEN ProbeFrom([m EXCEPT !.run.activeBatches = RemoveAt(@, i)], i - 1)
    ELSE [m EXCEPT !.pc = "probe", !.probe = i]

\* The outer while loop from its condition: admit, then wait for the race of
\* the active promises, which an already settled one wins at once.
SchedulerLoop(m) ==
    IF Len(m.run.batchQueue) > 0 \/ Len(m.run.activeBatches) > 0
    THEN LET a == AdmitLoop(m)
         IN  IF \E i \in 1..Len(a.run.activeBatches) : IsSettled(a.tasks[a.run.activeBatches[i]])
             THEN ProbeFrom(a, Len(a.run.activeBatches))
             ELSE [a EXCEPT !.pc = "race"]
    ELSE Finish(m)

\* What startAnalysis does when the promise of batch b settles
Wake(m, b) ==
    IF m.pc = "race" THEN ProbeFrom(m, Len(m.run.activeBatches))
    ELSE IF m.pc = "probe" /\ m.run.activeBatches[m.probe] = b THEN ProbeFrom(m, m.probe)
    ELSE m

\* processBatch after analyzeImageBatch has returned response
processBatchEnd(m, b, response) ==
    LET ok == response.success /\ response.result # None
        completedCount == m.run.completedCount + (IF ok THEN 1 ELSE 0)
        failedCount == m.run.failedCount + (IF ok THEN 0 ELSE 1)
        message == IF response.error # None /\ response.error[1].message # <<>>
                   THEN response.error[1].message
                   ELSE <<"Analysis failed">>
        h == IF ok
             THEN [m.heap EXCEPT ![b].status = "completed", ![b].result = response.result,
                                 ![b].endTime = Some(Stamp)]
             ELSE [m.heap EXCEPT ![b].status = "error", ![b].error = Some(message),
                                 ![b].endTime = Some(Stamp)]
        progress == RoundPercent(completedCount + failedCount, Len(m.run.batches))
    IN  [m EXCEPT !.heap = h,
                  !.run.completedCount = completedCount,
                  !.run.failedCount = failedCount,
                  !.run.processedBatches = Append(@, b),
                  !.batches = [i \in 1..Len(m.batches) |->
                                  IF m.heap[m.batches[i]].id = m.heap[b].id
                                  THEN b ELSE m.batches[i]],
                  !.ps.completedBatches = completedCount,
                  !.ps.failedBatches = failedCount,
                  !.ps.overallProgress = progress,
                  !.tasks[b].pc = "settled"]

\* analyzeImageBatch returns response: processBatch goes on with it, any
\* other caller holds it
analyzeImageBatchReturns(m, b, response) ==
    LET held == [m EXCEPT !.tasks[b].response = Some(response)]
    IN  IF m.tasks[b].caller = "processBatch"
        THEN Wake(processBatchEnd(held, b, response), b)
        ELSE [held EXCEPT !.tasks[b].pc = "settled"]

\* a catch block that forgets to record the batch as processed
processBatchCatchUnrecorded(m, b, message) ==
    [m EXCEPT !.heap[b].status = "error",
              !.heap[b].error = Some(message),
              !.heap[b].endTime = Some(Stamp),
              !.run.failedCount = @ + 1,
              !.tasks[b].pc = "settled"]

\* the catch block of processBatch
processBatchCatch(m, b, message) ==
    [m EXCEPT !.heap[b].status = "error",
              !.heap[b].error = Some(message),
              !.heap[b].endTime = Some(Stamp),
              !.run.failedCount = @ + 1,
              !.run.processedBatches = Append(@, b),
              !.tasks[b].pc = "settled"]

\* --------------------------------------------------- hook: startAnalysis
startAnalysis ==
    /\ ops < MaxOps
    /\ ops' = ops + 1
    /\ IF processingRef
       THEN UNCHANGED <<heap, batches, isProcessing, processingStatus, report, error>>
            /\ UNCHANGED runVars
       ELSE /\ error' = None
            /\ Commit(SchedulerLoop(
                  [Cur EXCEPT !.processingRef = TRUE,
                              !.isProcessing = TRUE,
                              !.report = None,
                              !.ps = ZeroStatus(Len(batches)),
                              !.tasks = <<>>,
                              !.run = [batches |-> batches,
                                       imagesLength |-> Len(images),
                                       startTime |-> Stamp,
                                       batchQueue |-> batches,
                                       activeBatches |-> <<>>,
                                       processedBatches |-> <<>>,
                                       completedCount |-> 0,
                                       failedCount |-> 0]]))
    /\ UNCHANGED <<images, now, nextImageId, env, route>>

\* ------------------------------------------- the steps of one processBatch
Active == Range(run.activeBatches)

\* positions in a batch of the images whose file FileReader cannot read
Unreadable(batch) == {i \in 1..Len(batch.images) : batch.images[i].id \in env.unreadable}

\* prepareBatchForAPI resolves; analyzeImageBatch validates and issues the
\* first exchange
PrepareDone(b) ==
    /\ b \in DOMAIN tasks
    /\ tasks[b].pc = "prepare"
    /\ Unreadable(heap[b]) = {}
    /\ LET sizeError == BatchSizeError(Len(heap[b].images))
       IN  IF sizeError # None
           THEN Commit(analyzeImageBatchReturns(Cur, b, Failure(sizeError[1])))
           ELSE /\ tasks' = [tasks EXCEPT ![b].pc = "fetch"]
                /\ UNCHANGED <<heap, batches, isProcessing, processingStatus, report,
                               processingRef, run, pc, probe>>
    /\ UNCHANGED <<images, error, now, nextImageId, ops, env, route>>

\* prepareBatchForAPI throws: FileReader failed on an image of the batch
PrepareFails(b) ==
    /\ b \in DOMAIN tasks
    /\ tasks[b].pc = "prepare"
    /\ \E i \in Unreadable(heap[b]) :
          /\ \A j \in Unreadable(heap[b]) : i <= j
          /\ Commit(Wake(processBatchCatch(Cur, b,
                      <<"Failed to prepare image", ToString(heap[b].images[i].id),
                        "for analysis">>), b))
    /\ UNCHANGED <<images, error, now, nextImageId, ops, env, route>>

\* one exchange of makeAPIRequest ends with outcome
FetchReturns(b, outcome) ==
    /\ b \in DOMAIN tasks
    /\ tasks[b].pc = "fetch"
    /\ LET task == tasks[b]
           seen == [Cur EXCEPT !.tasks[b].outcome = Some(outcome)]
       IN  IF outcome.kind = "ok"
           THEN Commit(analyzeImageBatchReturns(seen, b,
                    AnalysisOfAnswer(outcome.content, heap[b].id, Len(heap[b].images),
                                     Elapsed)))
           ELSE IF ShouldRetry(task.retryCount, AttemptError(outcome))
           THEN Commit([seen EXCEPT !.tasks[b].pc = "backoff",
                                      !.tasks[b].delays =
                                          Append(@, BackoffDelay(task.retryCount))])
           ELSE Commit(analyzeImageBatchReturns(seen, b,
                    Failure(AttemptError(outcome).message)))
    /\ UNCHANGED <<images, error, now, nextImageId, ops, env, route>>

\* the backoff delay elapses and makeAPIRequest calls itself
BackoffElapses(b) ==
    /\ b \in DOMAIN tasks
    /\ tasks[b].pc = "backoff"
    /\ tasks' = [tasks EXCEPT ![b].pc = "fetch", ![b].retryCount = @ + 1]
    /\ UNCHANGED <<heap, batches, isProcessing, processingStatus, report,
                   processingRef, run, pc, probe>>
    /\ UNCHANGED <<images, error, now, nextImageId, ops, env, route>>

\* the zero-delay timer of the probe fires while the probed promise is pending
ProbeTimeout ==
    /\ pc = "probe"
    /\ ~IsSettled(tasks[run.activeBatches[probe]])
    /\ Commit(ProbeFrom(Cur, probe - 1))
    /\ UNCHANGED <<images, error, now, nextImageId, ops, env, route>>

\* ------------------------------------------------------- the surroundings
Texts == {<<"FINDINGS:", "a">>}

TooManyRequests == HttpError(429, "Too Many Requests", <<>>)
ServiceUnavailable == HttpError(503, "Service Unavailable", <<>>)
BadRequest == HttpError(400, "Bad Request", <<"invalid">>)
ServerErrorQuoting503 == HttpError(500, "Internal Server Error", <<"upstream", "503">>)
FailedToFetch == Rejected("TypeError", <<"Failed to fetch">>)
TimedOut == Rejected("AbortError", <<"The operation was aborted.">>)

\* several batches, one unreadable file, a service that answers every request
\* but the first one for the second batch, which it rate-limits
SchedulerEnv ==
    [sizes |-> {61},
     capacity |-> batchSize,
     bad |-> {{}},
     unreadable |-> {1},
     throttled |-> {2},
     outcomes |-> {Answer(Some(text)) : text \in Texts}]

\* at most two batches, a service that fails in every way
ClientEnv ==
    [sizes |-> {1, 20},
     capacity |-> batchSize,
     bad |-> {{}, {1}},
     unreadable |-> {22},
     throttled |-> {},
     outcomes |-> {Answer(Some(text)) : text \in Texts}
                  \cup {Answer(Some(<<>>)), Answer(None), BadJson, TooManyRequests, ServiceUnavailable,
                        BadRequest,
                        ServerErrorQuoting503, FailedToFetch, TimedOut}]

\* what the service may answer to the next exchange of the task of batch b
Outcomes(b) ==
    IF heap[b].id.n \in env.throttled /\ tasks[b].retryCount = 0
    THEN {TooManyRequests}
    ELSE env.outcomes

\* uploads of 45 files: three batches of 20, 20 and 5 that the service answers;
\* a second upload brings an unreadable file and a rate-limited batch
EndToEndEnv ==
    [sizes |-> {45},
     capacity |-> batchSize,
     bad |-> {{}},
     unreadable |-> {46},
     throttled |-> {5},
     outcomes |-> {Answer(Some(text)) : text \in Texts}]

\* uploads of 100 or 101 files, which reach the limit of 200 items and pass it
LimitEnv ==
    [sizes |-> {100, 101},
     capacity |-> batchSize,
     bad |-> {{}, {1}},
     unreadable |-> {1},
     throttled |-> {2},
     outcomes |-> {Answer(Some(text)) : text \in Texts}]

Init == InitIn(SchedulerEnv)
LimitInit == InitIn(LimitEnv)
EndToEndInit == InitIn(EndToEndEnv)
ClientInit == InitIn(ClientEnv)

Tick ==
    /\ now < MaxTime
    /\ now' = now + 1
    /\ UNCHANGED <<ops, nextImageId, heap, env, route>>
    /\ UNCHANGED stateVars
    /\ UNCHANGED runVars

\* ids a caller may hand to removeImage: the first and the last item held
RemovableIds == IF images = <<>> THEN {} ELSE {images[1].id, images[Len(images)].id}

Next ==
    \/ \E n \in env.sizes, bad \in env.bad : uploadImages(n, bad)
    \/ \E imageId \in RemovableIds : removeImage(imageId)
    \/ clearAllImages
    \/ resetAnalysis
    \/ startAnalysis
    \/ \E b \in DOMAIN tasks : PrepareDone(b)
    \/ \E b \in DOMAIN tasks : PrepareFails(b)
    \/ \E b \in DOMAIN tasks : \E outcome \in Outcomes(b) : FetchReturns(b, outcome)
    \/ \E b \in DOMAIN tasks : BackoffElapses(b)
    \/ ProbeTimeout
    \/ Tick

Spec == Init /\ [][Next]_vars
ClientSpec == ClientInit /\ [][Next]_vars
EndToEndSpec == EndToEndInit /\ [][Next]_vars

\* the calls that change the item set, on their own
ItemsNext ==
    \/ \E n \in env.sizes, bad \in env.bad : uploadImages(n, bad)
    \/ \E imageId \in RemovableIds : removeImage(imageId)
    \/ clearAllImages
    \/ Tick

LimitSpec == LimitInit /\ [][ItemsNext]_vars

\* Every step of a run in progress is driven by the event loop: a file read,
\* an exchange (which returns or is aborted by its timer), a delay, a timer.
RunStep ==
    \/ \E b \in DOMAIN tasks : PrepareDone(b)
    \/ \E b \in DOMAIN tasks : PrepareFails(b)
    \/ \E b \in DOMAIN tasks : \E outcome \in Outcomes(b) : FetchReturns(b, outcome)
    \/ \E b \in DOMAIN tasks : BackoffElapses(b)
    \/ ProbeTimeout

\* ENABLED <<RunStep>>_vars as a state predicate: a promise of the run has
\* not settled yet
RunPending == \E b \in DOMAIN tasks : tasks[b].pc # "settled"

\* WF_vars(RunStep), with ENABLED <<RunStep>>_vars written out as RunPending
Fairness == []<>(~RunPending) \/ []<><<RunStep>>_vars

FairSpec == Spec /\ Fairness

\* --------------------------------------- createBatches on its own inputs
LongLists == {0, 20, 40, 45}

PartCases ==
    {[n |-> n, bad |-> bad, capacity |-> capacity] :
        n \in 0..MaxPartLen, bad \in SUBSET (1..MaxPartLen), capacity \in 1..MaxPartCap}
    \cup {[n |-> n, bad |-> bad, capacity |-> batchSize] :
        n \in LongLists, bad \in {{}, {1}}}

PartInit ==
    \E c \in PartCases :
        /\ c.bad \subseteq 1..c.n
        /\ env = [ClientEnv EXCEPT !.capacity = c.capacity]
        /\ images = processUploadedFiles(c.n, c.bad, 1)
        /\ batches = <<>>
        /\ isProcessing = FALSE
        /\ processingStatus = ZeroStatus(0)
        /\ report = None
        /\ error = None
        /\ heap = <<>>
        /\ processingRef = FALSE
        /\ run = NoRun
        /\ pc = "idle"
        /\ probe = 0
        /\ tasks = <<>>
        /\ now = 0
        /\ nextImageId = c.n + 1
        /\ ops = 0
        /\ route = None

\* ImageProcessor.createBatches(images, capacity)
Partition ==
    LET newBatches == createBatches(images, env.capacity, now)
    IN  /\ ops = 0
        /\ ops' = 1
        /\ batches' = Alloc(heap, newBatches)
        /\ heap' = heap \o newBatches
        /\ UNCHANGED <<images, isProcessing, processingStatus, report, error, now,
                       nextImageId, env, route>>
        /\ UNCHANGED runVars

PartNext == Partition

PartSpec == PartInit /\ [][PartNext]_vars

\* ImageProcessor.createBatches called a second time on the same list and
\* capacity; its result is kept behind the first one
PartitionAgain ==
    LET newBatches == createBatches(images, env.capacity, now)
    IN  /\ ops = 1
        /\ ops' = 2
        /\ heap' = heap \o newBatches
        /\ UNCHANGED <<images, batches, isProcessing, processingStatus, report, error, now,
                       nextImageId, env, route>>
        /\ UNCHANGED runVars

TwiceNext == Partition \/ PartitionAgain \/ Tick

TwiceSpec == PartInit /\ [][TwiceNext]_vars

\* ------------------- analyzeImageBatch called from outside the hook, and
\* ------------------- the POST /api/analyze route
CallSizes == {0, 1, batchSize} \cup ((batchSize + 1)..MaxCallImages)

CallInit ==
    \E n \in CallSizes : InitIn([ClientEnv EXCEPT !.sizes = {n}, !.unreadable = {}])

\* an AnalysisRequest of n images
Request(n) == NewBatch(1, now, processUploadedFiles(n, {}, 1))

\* a caller calls RadiologyAPIClient.analyzeImageBatch with n images
CallAnalyzeImageBatch(n) ==
    /\ heap = <<>>
    /\ route = None
    /\ heap' = <<Request(n)>>
    /\ tasks' = (1 :> [NewTask EXCEPT !.caller = "caller"])
    /\ ops' = ops + 1
    /\ UNCHANGED <<images, batches, isProcessing, processingStatus, report, error,
                   processingRef, run, pc, probe, now, nextImageId, env, route>>

Reply(status, code) == [status |-> status, code |-> code]

\* the route's check of the number of image files
RouteSizeError(imageCount) ==
    IF imageCount = 0 THEN Some(Reply(400, "NO_IMAGES"))
    ELSE IF imageCount > 20 THEN Some(Reply(400, "BATCH_TOO_LARGE"))
    ELSE None

\* the route's conversion loop: the first file that cannot be read or whose
\* data validateImageData refuses ends the request
RouteImageError(n, bad) ==
    LET failing == {i \in 1..n : i \in env.unreadable \/ i \in bad}
    IN  IF failing = {} THEN None
        ELSE LET first == CHOOSE i \in failing : \A j \in failing : i <= j
             IN  IF first \in env.unreadable
                 THEN Some(Reply(500, "IMAGE_PROCESSING_FAILED"))
                 ELSE Some(Reply(400, "INVALID_IMAGE"))

\* POST /api/analyze with n image files, up to its call of the client
POST(n, bad) ==
    LET sizeError == RouteSizeError(n)
        imageError == RouteImageError(n, bad)
    IN  /\ heap = <<>>
        /\ route = None
        /\ ops' = ops + 1
        /\ IF sizeError # None
           THEN /\ route' = Some([pc |-> "replied", imageCount |-> n, reply |-> sizeError])
                /\ UNCHANGED <<heap, tasks>>
           ELSE IF imageError # None
           THEN /\ route' = Some([pc |-> "replied", imageCount |-> n, reply |-> imageError])
                /\ UNCHANGED <<heap, tasks>>
           ELSE /\ route' = Some([pc |-> "calling", imageCount |-> n, reply |-> None])
                /\ heap' = <<Request(n)>>
                /\ tasks' = (1 :> [NewTask EXCEPT !.caller = "route"])
        /\ UNCHANGED <<images, batches, isProcessing, processingStatus, report, error,
                       processingRef, run, pc, probe, now, nextImageId, env>>

\* the route relays what analyzeImageBatch returned
PostReplies ==
    /\ route # None
    /\ route[1].pc = "calling"
    /\ tasks[1].pc = "settled"
    /\ route' = Some([route[1] EXCEPT
                        !.pc = "replied",
                        !.reply = IF tasks[1].response[1].success
                                  THEN Some(Reply(200, "OK"))
                                  ELSE Some(Reply(500, tasks[1].response[1].error[1].code))])
    /\ UNCHANGED <<images, batches, isProcessing, processingStatus, report, error, heap,
                   processingRef, run, pc, probe, tasks, now, nextImageId, ops, env>>

CallNext ==
    \/ \E n \in env.sizes : CallAnalyzeImageBatch(n)
    \/ \E n \in env.sizes, bad \in env.bad : POST(n, bad)
    \/ \E b \in DOMAIN tasks : PrepareDone(b)
    \/ \E b \in DOMAIN tasks : \E outcome \in Outcomes(b) : FetchReturns(b, outcome)
    \/ \E b \in DOMAIN tasks : BackoffElapses(b)
    \/ PostReplies

CallSpec == CallInit /\ [][CallNext]_vars

\* ------------------------------------- parseAnalysisResponse on its own inputs
ParseTokens ==
    {"a", "b", "FINDINGS:", "findings:", "RECOMMENDATIONS:", "CONFIDENCE:",
     "TECHNICAL NOTES:"}

RECURSIVE TextsOfLength(_)
TextsOfLength(n) ==
    IF n = 0 THEN {<<>>}
    ELSE {Append(text, token) : text \in TextsOfLength(n - 1), token \in ParseTokens}

\* a text of more characters than the fallback of findings keeps
LongText == [i \in 1..1001 |-> "a"]

ParseTexts == UNION {TextsOfLength(n) : n \in 0..MaxTextLen} \cup {LongText}

\* the text to parse is the content of the service's answer; the image count
\* is the size of the request
ParseInit ==
    \E text \in ParseTexts, n \in {1, batchSize} :
        InitIn([ClientEnv EXCEPT !.sizes = {n}, !.outcomes = {Answer(Some(text))}])

\* parseAnalysisResponse(analysisText, batchId, imageCount, processingTime),
\* its result kept on the batch as processBatch keeps it
Parse ==
    /\ ops = 0
    /\ ops' = 1
    /\ \E n \in env.sizes, answer \in env.outcomes :
          heap' = <<[Request(n) EXCEPT
                       !.result = Some(parseAnalysisResponse(answer.content[1], Request(n).id,
                                                             n, Elapsed))]>>
    /\ UNCHANGED <<images, batches, isProcessing, processingStatus, report, error,
                   processingRef, run, pc, probe, tasks, now, nextImageId, env, route>>

ParseNext == Parse

ParseSpec == ParseInit /\ [][ParseNext]_vars

TypeOK ==
    /\ pc \in {"idle", "race", "probe"}
    /\ processingRef = (pc # "idle")
    /\ Len(run.activeBatches) <= maxConcurrent

\* ------------------------------------------------------------------ claims
Terminal == {"completed", "error"}

\* ---------------------------------------------------------------------- C1
\* C1: at every moment of a run at most three groups are in the PROCESSING
\* state, however many groups the partition holds.
ProcessingBatches == {r \in DOMAIN heap : heap[r].status = "processing"}

C1_AtMostThreeProcessing == Cardinality(ProcessingBatches) <= 3

\* three groups in flight again after a first group has finished and the
\* fourth has been admitted in its place
C1_ThreeInFlightAfterOneDone ==
    /\ processingRef
    /\ Cardinality(ProcessingBatches) = 3
    /\ Len(run.processedBatches) > 0
    /\ Len(run.batches) > 3

\* ---------------------------------------------------------------------- C2
\* C2: when every exchange eventually returns or times out, a started run
\* terminates: every group present at its start has been admitted and has
\* reached a terminal state, isProcessing is false again, and the report is
\* built from those groups, each exactly once.
ExactlyOnce(processed, all) ==
    /\ Len(processed) = Len(all)
    /\ Range(processed) = Range(all)
    /\ Cardinality(Range(processed)) = Len(processed)

\* the report standing in the state is built from every group of the run
ReportCoversRun ==
    /\ ExactlyOnce(run.processedBatches, run.batches)
    /\ \A i \in 1..Len(run.batches) : heap[run.batches[i]].status \in Terminal
    /\ report[1].totalBatches = Len(run.batches)
    /\ report[1].completedBatches + report[1].failedBatches = Len(run.batches)

RunEnded ==
    /\ ~processingRef
    /\ ~isProcessing
    /\ report # None
    /\ ReportCoversRun

C2_RunTerminates ==
    /\ processingRef ~> RunEnded
    /\ [](report # None => ~processingRef /\ ReportCoversRun)

\* a run over more groups than can be in flight together has ended
C2_LongRunEnded == RunEnded /\ Len(run.batches) > 3

\* ---------------------------------------------------------------------- C3
\* C3: createBatches over M valid items and capacity N returns ceil(M / N)
\* groups; every group but the last holds N items, the last between 1 and N;
\* the groups in order are the valid items in their order; no valid item, no
\* group.
ValidImages == SelectSeq(images, LAMBDA img : img.status # "error")

RECURSIVE Flatten(_)
Flatten(groups) ==
    IF groups = <<>> THEN <<>> ELSE Head(groups).images \o Flatten(Tail(groups))

C3_CreateBatchesShape ==
    ops = 1 =>
        LET M == Len(ValidImages)
            N == env.capacity
            G == Len(heap)
        IN  /\ G = (M + N - 1) \div N
            /\ \A g \in 1..(G - 1) : Len(heap[g].images) = N
            /\ G > 0 => Len(heap[G].images) \in 1..N
            /\ Flatten(heap) = ValidImages
            /\ M = 0 => heap = <<>>
            /\ \A g \in 1..G : heap[g].status = "pending" /\ heap[g].id.n = g

\* a list with a rejected item, cut into three groups or more, the last short
C3_SeveralGroupsLastShort ==
    /\ ops = 1
    /\ Len(heap) >= 3
    /\ Len(heap[Len(heap)].images) < env.capacity
    /\ Len(ValidImages) < Len(images)

\* ---------------------------------------------------------------------- C4
\* C4: a group whose exchanges all fail with a retryable HTTP status (429,
\* 502, 503) is in ERROR after exactly four attempts, with waits of 1000,
\* 2000 and 4000 ms between them; no fifth attempt is made.
RetryableStatuses == {429, 502, 503}
BackoffSchedule == <<1000, 2000, 4000>>

GaveUpOnRetryableStatus(b) ==
    /\ tasks[b].pc = "settled"
    /\ tasks[b].outcome # None
    /\ tasks[b].outcome[1].kind = "http"
    /\ tasks[b].outcome[1].status \in RetryableStatuses

C4_FourAttemptsBackoff ==
    \A b \in DOMAIN tasks :
        /\ tasks[b].retryCount <= 3
        /\ Len(tasks[b].delays) <= Len(BackoffSchedule)
        /\ \A k \in 1..Len(tasks[b].delays) : tasks[b].delays[k] = BackoffSchedule[k]
        /\ Len(tasks[b].delays) =
              tasks[b].retryCount + (IF tasks[b].pc = "backoff" THEN 1 ELSE 0)
        /\ GaveUpOnRetryableStatus(b) =>
              /\ tasks[b].retryCount = 3
              /\ tasks[b].delays = BackoffSchedule
              /\ heap[b].status = "error"
              /\ heap[b].error = Some(AttemptError(tasks[b].outcome[1]).message)

C4_GaveUpAfterFourAttempts ==
    \E b \in DOMAIN tasks :
        GaveUpOnRetryableStatus(b) /\ tasks[b].retryCount = 3 /\ heap[b].status = "error"

\* ---------------------------------------------------------------------- C5
\* C5: a failure of the non-retryable class (any other HTTP status, a
\* malformed body, a timeout) ends the group's exchange at once, whatever text
\* the error response carries: no further attempt, no backoff wait.
IsRetryableClass(outcome) ==
    \/ outcome.kind = "http" /\ outcome.status \in RetryableStatuses
    \/ outcome.kind = "reject" /\ outcome.name # "AbortError"

IsTerminalClass(outcome) == outcome.kind # "ok" /\ ~IsRetryableClass(outcome)

C5_TerminalClassNotRetried ==
    \A b \in DOMAIN tasks :
        (tasks[b].outcome # None /\ IsTerminalClass(tasks[b].outcome[1]))
            => tasks[b].pc = "settled"

\* ---------------------------------------------------------------------- C6
\* C6: a failure of the retryable class (HTTP 429, 502, 503, or a
\* transport-level network failure) met while fewer than three retries have
\* been used is followed by another attempt: the client gives up on such a
\* failure only with its three retries spent.
C6_RetryableClassRetried ==
    \A b \in DOMAIN tasks :
        (/\ tasks[b].pc = "settled"
         /\ tasks[b].outcome # None
         /\ IsRetryableClass(tasks[b].outcome[1]))
            => tasks[b].retryCount = 3

\* ---------------------------------------------------------------------- C7
\* C7: during a run and after it, overallProgress is 100 exactly when
\* completedBatches + failedBatches is the number of groups of the run, also
\* when a group ended by an exception inside processBatch.
RunShown == processingRef \/ report # None

C7_HundredIffAllCounted ==
    RunShown =>
        ((processingStatus.overallProgress = 100)
            <=> (processingStatus.completedBatches + processingStatus.failedBatches
                    = Len(run.batches)))

\* ---------------------------------------------------------------------- C8
\* C8: from the step in which startAnalysis zeroes the status until the run
\* ends, overallProgress never decreases.
C8_ProgressNeverDecreases ==
    [][(processingRef /\ processingRef')
          => processingStatus'.overallProgress >= processingStatus.overallProgress]_vars

\* ---------------------------------------------------------------------- C9
\* C9: a group whose exchange or preparation fails is the one marked ERROR,
\* with the error's message as its error text; every group is settled by its
\* own exchange alone, every other group of the run is still admitted and run
\* to a terminal state, and the run is not aborted.
OwnFailure(b) ==
    LET unreadable == Unreadable(heap[b])
        sizeError == BatchSizeError(Len(heap[b].images))
    IN  IF unreadable # {}
        THEN Some(<<"Failed to prepare image",
                    ToString(heap[b].images[CHOOSE i \in unreadable :
                                               \A j \in unreadable : i <= j].id),
                    "for analysis">>)
        ELSE IF sizeError # None THEN sizeError
        ELSE LET outcome == tasks[b].outcome[1]
             IN  IF outcome.kind # "ok" THEN Some(AttemptError(outcome).message)
                 ELSE IF outcome.content = None \/ outcome.content[1] = <<>>
                 THEN Some(<<"No analysis content received from API">>)
                 ELSE None

Rank(status) ==
    CASE status = "pending" -> 0
      [] status = "processing" -> 1
      [] status \in Terminal -> 2

C10_StatusMonotone ==
    [][\A r \in DOMAIN heap :
          /\ Rank(heap'[r].status) >= Rank(heap[r].status)
          /\ heap[r].status \in Terminal => heap'[r] = heap[r]]_vars

\* --------------------------------------------------------------------- C11
\* C11: after the caller aborts a running analysis (clearAllImages while the
\* run is in progress), no further group is admitted to PROCESSING and the
\* exchanges still in flight change neither a group's status or result, nor
\* the counters, nor produce a report.
Aborted == processingRef /\ ~isProcessing

C11_NothingMergedAfterAbort ==
    [][Aborted =>
          /\ \A r \in DOMAIN heap :
                /\ heap'[r].status = heap[r].status
                /\ heap'[r].result = heap[r].result
                /\ heap'[r].error = heap[r].error
          /\ processingStatus'.completedBatches = processingStatus.completedBatches
          /\ processingStatus'.failedBatches = processingStatus.failedBatches
          /\ processingStatus'.overallProgress = processingStatus.overallProgress
          /\ report' = None]_vars

\* --------------------------------------------------------------------- C12
\* C12: analyzeImageBatch called with no image or with more than 20 images
\* returns a failure without any exchange (makeAPIRequest is not invoked, no
\* retry, no backoff), and the /api/analyze route answers 400 for such a
\* request without calling the client.
WrongSize(imageCount) == imageCount = 0 \/ imageCount > 20

C12_WrongSizeRejectedLocally ==
    /\ \A b \in DOMAIN tasks :
          WrongSize(Len(heap[b].images)) =>
              /\ tasks[b].pc \in {"prepare", "settled"}
              /\ tasks[b].outcome = None
              /\ tasks[b].retryCount = 0
              /\ tasks[b].delays = <<>>
              /\ tasks[b].pc = "settled" =>
                    /\ tasks[b].response # None
                    /\ ~tasks[b].response[1].success
                    /\ tasks[b].response[1].result = None
                    /\ tasks[b].response[1].error # None
    /\ (route # None /\ WrongSize(route[1].imageCount)) =>
          /\ route[1].pc = "replied"
          /\ route[1].reply[1].status = 400
          /\ tasks = <<>>

\* a call with more than 20 images has returned its failure
C12_OversizedCallReturned ==
    \E b \in DOMAIN tasks :
        /\ Len(heap[b].images) > 20
        /\ tasks[b].pc = "settled"
        /\ ~tasks[b].response[1].success

\* --------------------------------------------------------------------- C13
\* C13: an exchange that succeeds at HTTP level with empty or missing content
\* makes analyzeImageBatch return success = false with an error and no
\* result, is not retried, and leaves the group in ERROR; success is returned
\* only for non-empty content, with a DiagnosticResult for the same batchId
\* and image count.
NoContent(outcome) == outcome.content = None \/ outcome.content[1] = <<>>

C13_EmptyContentIsAnError ==
    \A b \in DOMAIN tasks :
        /\ (tasks[b].outcome # None /\ tasks[b].outcome[1].kind = "ok") =>
              /\ tasks[b].pc = "settled"
              /\ tasks[b].response # None
              /\ IF NoContent(tasks[b].outcome[1])
                 THEN /\ ~tasks[b].response[1].success
                      /\ tasks[b].response[1].result = None
                      /\ tasks[b].response[1].error # None
                      /\ heap[b].status = "error"
                 ELSE /\ tasks[b].response[1].success
                      /\ tasks[b].response[1].result # None
                      /\ tasks[b].response[1].result[1].batchId = heap[b].id
                      /\ tasks[b].response[1].result[1].imageCount = Len(heap[b].images)
                      /\ heap[b].status = "completed"
        /\ (tasks[b].response # None /\ tasks[b].response[1].success) =>
              /\ tasks[b].outcome # None
              /\ tasks[b].outcome[1].kind = "ok"
              /\ ~NoContent(tasks[b].outcome[1])

\* a group whose exchange brought no content has ended in ERROR
C13_GroupFailedOnEmptyContent ==
    \E b \in DOMAIN tasks :
        /\ tasks[b].outcome # None
        /\ tasks[b].outcome[1].kind = "ok"
        /\ NoContent(tasks[b].outcome[1])
        /\ heap[b].status = "error"

\* --------------------------------------------------------------------- C14
\* C14: for every text, the empty one included, parseAnalysisResponse returns
\* a result whose findings, recommendations and confidence are non-empty and
\* whose batchId, imageCount and processingTime are the arguments passed in.
ParsedText == (CHOOSE answer \in env.outcomes : TRUE).content[1]
ParsedCount == CHOOSE n \in env.sizes : TRUE

C14_ParserTotal ==
    ops = 1 =>
        /\ heap[1].result # None
        /\ heap[1].result[1].findings # <<>>
        /\ heap[1].result[1].recommendations # <<>>
        /\ heap[1].result[1].confidence # <<>>
        /\ heap[1].result[1].batchId = heap[1].id
        /\ heap[1].result[1].imageCount = ParsedCount
        /\ heap[1].result[1].processingTime = Elapsed

\* the empty text has been parsed
C14_EmptyTextParsed == ops = 1 /\ ParsedText = <<>> /\ heap[1].result # None

\* --------------------------------------------------------------------- C15
\* C15: when the text contains a recognised heading of a field (in any case),
\* the field is the text between the first occurrence of that heading and the
\* next recognised heading or the end of the text: not the fallback, not text
\* from a later occurrence.
AnyHeading ==
    FindingsHeadings \cup RecommendationsHeadings \cup ConfidenceHeadings
        \cup TechnicalNotesHeadings

FirstHeading(text, headings) ==
    CHOOSE i \in 1..Len(text) :
        /\ Upper(text[i]) \in headings
        /\ \A j \in 1..(i - 1) : Upper(text[j]) \notin headings

\* the tokens after the first heading of the field up to the next heading
SectionText(text, headings) ==
    LET first == FirstHeading(text, headings)
    IN  SubSeq(text, first + 1, CaptureEnd(text, first + 1, AnyHeading) - 1)

HasSection(text, headings) ==
    /\ \E i \in 1..Len(text) : Upper(text[i]) \in headings
    /\ SectionText(text, headings) # <<>>

C15_FirstSectionExtracted ==
    ops = 1 =>
        /\ HasSection(ParsedText, FindingsHeadings) =>
              heap[1].result[1].findings = SectionText(ParsedText, FindingsHeadings)
        /\ HasSection(ParsedText, RecommendationsHeadings) =>
              heap[1].result[1].recommendations
                  = SectionText(ParsedText, RecommendationsHeadings)

\* --------------------------------------------------------------------- C16
\* C16: the report's overallFindings is, when a group completed, a summary
\* sentence with the total item count and the total group count, followed by
\* the findings of every COMPLETED group in the order of the terminal set,
\* joined by the separator line; when no group completed it is the fixed
\* "no findings available" message.
TerminalSet == [i \in 1..Len(run.processedBatches) |-> heap[run.processedBatches[i]]]

CompletedSet == SelectSeq(TerminalSet, LAMBDA b : b.status = "completed")

C16_OverallFindings ==
    report # None =>
        report[1].overallFindings =
            IF Len(CompletedSet) > 0
            THEN <<"Analysis of", ToString(report[1].totalImages), "medical images across",
                   ToString(Len(TerminalSet)), "batches:">>
                 \o Join([i \in 1..Len(CompletedSet) |-> CompletedSet[i].result[1].findings],
                         "--- BATCH SEPARATOR ---")
            ELSE <<"No findings available due to processing errors.">>

\* --------------------------------------------------------------------- C17
\* C17: the report's status is "error" only if every group of the terminal
\* set is ERROR and "completed" as soon as one group is COMPLETED; its
\* confidence is the standard label exactly when a group completed, the
\* limited label otherwise.
C17_ReportStatusAndConfidence ==
    report # None =>
        /\ report[1].status \in {"error", "completed"}
        /\ report[1].status = "error" =>
              \A i \in 1..Len(TerminalSet) : TerminalSet[i].status = "error"
        /\ Len(CompletedSet) > 0 => report[1].status = "completed"
        /\ report[1].confidence =
              IF Len(CompletedSet) > 0 THEN "Standard diagnostic analysis"
              ELSE "Limited due to processing errors"

\* a report of a run in which one group failed and one completed
C17_PartialSuccessReported ==
    /\ report # None
    /\ Len(CompletedSet) > 0
    /\ Len(CompletedSet) < Len(TerminalSet)
    /\ report[1].status = "completed"

\* --------------------------------------------------------------------- C19
\* C19: startAnalysis on an empty item set (no group) is refused before any
\* scheduling: no report is produced and overallProgress is not set to 100.
C19_EmptyRunRefused ==
    run.batches = <<>> => (report = None /\ processingStatus.overallProgress # 100)

\* --------------------------------------------------------------------- C20
\* C20: resetAnalysis puts every group in PENDING without result, error text,
\* start time or end time, zeroes completedBatches, failedBatches and
\* overallProgress and clears the report; the item list, the number of
\* groups, each group's identifier and its items stay as they were.
C20_ResetFrame ==
    [][resetAnalysis =>
          /\ report' = None
          /\ processingStatus'.completedBatches = 0
          /\ processingStatus'.failedBatches = 0
          /\ processingStatus'.overallProgress = 0
          /\ images' = images
          /\ Len(batches') = Len(batches)
          /\ \A i \in 1..Len(batches) :
                /\ heap'[batches'[i]].status = "pending"
                /\ heap'[batches'[i]].result = None
                /\ heap'[batches'[i]].error = None
                /\ heap'[batches'[i]].startTime = None
                /\ heap'[batches'[i]].endTime = None
                /\ heap'[batches'[i]].id = heap[batches[i]].id
                /\ heap'[batches'[i]].images = heap[batches[i]].images]_vars

\* the groups of a finished run have been reset
C20_ResetAfterRun ==
    /\ ~processingRef
    /\ report = None
    /\ Len(run.batches) > 0
    /\ Len(run.processedBatches) = Len(run.batches)
    /\ Len(batches) = Len(run.batches)
    /\ \A i \in 1..Len(batches) :
          /\ batches[i] # run.batches[i]
          /\ heap[batches[i]].id = heap[run.batches[i]].id
          /\ heap[batches[i]].status = "pending"
          /\ heap[run.batches[i]].status \in Terminal

\* --------------------------------------------------------------------- C18
\* C18: in the report of a run, completedBatches is the number of groups that
\* ended COMPLETED, failedBatches the number that ended ERROR, and their sum
\* is totalBatches, the number of groups the partition held when the run
\* started.  For 45 valid items that is 3 groups of 20, 20 and 5 items, all
\* admitted at once; when all succeed completedBatches = 3, overallProgress =
\* 100 and totalImages = 45.
FailedSet == SelectSeq(TerminalSet, LAMBDA b : b.status = "error")

FortyFiveItems == run.imagesLength = 45 /\ Len(run.batches) = 3

C18_ReportCounts ==
    /\ report # None =>
          /\ report[1].completedBatches = Len(CompletedSet)
          /\ report[1].failedBatches = Len(FailedSet)
          /\ report[1].completedBatches + report[1].failedBatches = report[1].totalBatches
          /\ report[1].totalBatches = Len(run.batches)
    /\ FortyFiveItems =>
          /\ [i \in 1..3 |-> Len(heap[run.batches[i]].images)] = <<20, 20, 5>>
          /\ run.batchQueue = <<>>
          /\ \A i \in 1..3 : run.batches[i] \in DOMAIN tasks
          /\ (report # None /\ Len(CompletedSet) = 3) =>
                /\ report[1].completedBatches = 3
                /\ processingStatus.overallProgress = 100
                /\ report[1].totalImages = 45

\* the report of a run over 45 items whose three groups all completed
C18_FortyFiveItemsReported ==
    /\ FortyFiveItems
    /\ report # None
    /\ report[1].completedBatches = 3
    /\ report[1].totalImages = 45

\* --------------------------------------------------------------------- C21
\* C21: after any sequence of uploadImages, removeImage and clearAllImages the
\* items held never exceed 200 and no group holds more than 20 items; an
\* upload that would raise the total above 200 is rejected as a whole: it sets
\* an error message and leaves the item list, the groups and the processing
\* status as they were.
C21_LimitKept ==
    /\ [](/\ Len(images) <= 200
          /\ \A i \in 1..Len(batches) : Len(heap[batches[i]].images) <= 20)
    /\ [][\A n \in env.sizes, bad \in env.bad :
            (uploadImages(n, bad) /\ Len(images) + n > 200) =>
                /\ error' # None
                /\ images' = images
                /\ batches' = batches
                /\ \A i \in 1..Len(batches) : heap'[batches[i]] = heap[batches[i]]
                /\ processingStatus' = processingStatus]_vars

\* an upload has been refused with 200 items held in ten full groups
C21_UploadRefusedAtLimit ==
    /\ error # None
    /\ Len(images) = 200
    /\ Len(batches) = 10
    /\ \A i \in 1..Len(batches) : Len(heap[batches[i]].images) = 20

\* --------------------------------------------------------------------- C22
\* C22: within a run the groups are admitted in partition order: a group is
\* never in PROCESSING or beyond before every group ahead of it in the
\* partition has been admitted, in whatever order the earlier groups finish.
Admitted(b) == b \in DOMAIN tasks

C22_AdmittedInPartitionOrder ==
    /\ \A i, j \in 1..Len(run.batches) :
          (i < j /\ Admitted(run.batches[j])) =>
              /\ Admitted(run.batches[i])
              /\ heap[run.batches[i]].status # "pending"
    /\ \A i \in 1..Len(run.batches) :
          Admitted(run.batches[i]) <=> i <= Len(run.batches) - Len(run.batchQueue)
    /\ run.batchQueue =
          SubSeq(run.batches, Len(run.batches) - Len(run.batchQueue) + 1, Len(run.batches))

\* the fourth group has been admitted after the third finished, while the
\* first and the second are still in PROCESSING
C22_FourthAdmittedBehindThird ==
    /\ processingRef
    /\ Len(run.batches) > 3
    /\ Admitted(run.batches[4])
    /\ heap[run.batches[4]].status = "processing"
    /\ heap[run.batches[3]].status \in Terminal
    /\ heap[run.batches[1]].status = "processing"
    /\ heap[run.batches[2]].status = "processing"

\* --------------------------------------------------------------------- C23
\* C23: under every interleaving of finishing groups, right after each
\* group's terminal transition the published completedBatches and
\* failedBatches are the numbers of groups of the run that have reached
\* COMPLETED and ERROR, also for a group that fails by an exception inside
\* processBatch.
GroupSettles ==
    /\ processingRef
    /\ isProcessing
    /\ Len(run'.processedBatches) > Len(run.processedBatches)

C23_CountersFollowGroups ==
    [][GroupSettles =>
          /\ processingStatus'.completedBatches = Len(CompletedSet')
          /\ processingStatus'.failedBatches = Len(FailedSet')]_vars

\* --------------------------------------------------------------------- C24
\* C24: in every state reachable by any interleaving of the hook's calls and
\* of group completions, the group list is the partition of the current valid
\* items (the groups' items in order are the non-error items in order) and
\* totalBatches is the number of groups; right after an add, a remove or a
\* clear every group is PENDING without result.
PublishedGroups == [i \in 1..Len(batches) |-> heap[batches[i]]]

C24_GroupsArePartition ==
    /\ [](/\ Flatten(PublishedGroups) = ValidImages
          /\ processingStatus.totalBatches = Len(batches))
    /\ [][images' # images =>
            \A i \in 1..Len(batches') :
                /\ heap'[batches'[i]].status = "pending"
                /\ heap'[batches'[i]].result = None]_vars

\* --------------------------------------------------------------------- C25
\* C25: partitioning is deterministic: two calls of createBatches on the same
\* ordered item list and capacity, made at any two moments, return the same
\* partition: as many groups, the same items in each, the same identifiers and
\* the same initial status.
FirstPartition == SubSeq(heap, 1, Len(batches))
SecondPartition == SubSeq(heap, Len(batches) + 1, Len(heap))

C25_SamePartitionTwice == ops = 2 => SecondPartition = FirstPartition

\* --------------------------------------------------------------------- C26
\* C26: for a text without Findings heading, findings is the first 1000
\* characters of the text followed by the ellipsis marker; without
\* Recommendations heading, recommendations is the fixed placeholder; without
\* Confidence heading, confidence is the fixed default label; without
\* Technical Notes heading, technicalNotes is absent.
NoHeading(text, headings) == \A i \in 1..Len(text) : Upper(text[i]) \notin headings

C26_Fallbacks ==
    ops = 1 =>
        LET text == ParsedText
            result == heap[1].result[1]
            kept == IF Len(text) < 1000 THEN Len(text) ELSE 1000
        IN  /\ NoHeading(text, FindingsHeadings) =>
                  /\ Len(result.findings) = kept + 1
                  /\ \A i \in 1..kept : result.findings[i] = text[i]
                  /\ result.findings[kept + 1] = "..."
            /\ NoHeading(text, RecommendationsHeadings) =>
                  result.recommendations = <<"Please refer to detailed findings above.">>
            /\ NoHeading(text, ConfidenceHeadings) =>
                  result.confidence = <<"Standard diagnostic confidence">>
            /\ NoHeading(text, TechnicalNotesHeadings) => result.technicalNotes = None

\* a text of more than 1000 characters without any heading has been parsed
\* and cut
C26_LongTextCut ==
    /\ ops = 1
    /\ Len(ParsedText) > 1000
    /\ NoHeading(ParsedText, AnyHeading)
    /\ Len(heap[1].result[1].findings) = 1001

\* --------------------------------------------------------------------- C27
\* C27: at most one run is active: startAnalysis called while an earlier call
\* has not finished returns at once, admits no group and changes neither the
\* status, nor the counters, nor the report; the guard is released when the
\* run ends, so that a later startAnalysis can run.
AllSettled ==
    \A i \in 1..Len(run.batches) :
        Admitted(run.batches[i]) /\ IsSettled(tasks[run.batches[i]])

C27_SingleRun ==
    /\ [](processingRef => ~AllSettled)
    /\ [][(startAnalysis /\ processingRef) =>
            /\ UNCHANGED <<heap, batches, isProcessing, processingStatus, report, error>>
            /\ UNCHANGED runVars]_vars
    /\ [][(startAnalysis /\ ~processingRef /\ batches # <<>>) =>
            (processingRef' /\ run'.batches = batches)]_vars

\* a third call, made while the run started by the second is in flight, has
\* returned: the run goes on with its one group
C27_SecondCallRefused ==
    /\ ops = 3
    /\ Len(images) = 1
    /\ batches = <<1>>
    /\ run.batches = <<1>>
    /\ processingRef
    /\ heap[1].status = "processing"
    /\ heap[1].endTime = None

\* --------------------------------------------------------------------- C28
\* C28: in every reachable state, over any sequence of runs, resets and
\* uploads, a group's status and payload agree: a COMPLETED group has a
\* result and no error text, an ERROR group has an error text and no result,
\* a PENDING group has neither result, nor error text, nor end time.
C28_StatusAgreesWithPayload ==
    \A i \in 1..Len(batches) :
        LET group == heap[batches[i]]
        IN  /\ group.status = "completed" => (group.result # None /\ group.error = None)
            /\ group.status = "error" => (group.error # None /\ group.result = None)
            /\ group.status = "pending" =>
                  (group.result = None /\ group.error = None /\ group.endTime = None)

\* --------------------------------------------------------------------- C29
\* C29: in every reachable state, also when items are uploaded, removed or
\* cleared while a run is in progress, completedBatches + failedBatches is at
\* most totalBatches and overallProgress lies between 0 and 100.
C29_CountersWithinTotal ==
    /\ processingStatus.completedBatches + processingStatus.failedBatches
          <= processingStatus.totalBatches
    /\ processingStatus.overallProgress >= 0
    /\ processingStatus.overallProgress <= 100

\* --------------------------------------------------------------------- C30
\* C30: in the report of a run, totalImages is the number of items that were
\* partitioned and submitted, the sum of the item counts of the groups of the
\* run; items that failed validation are not counted.
RECURSIVE SubmittedItems(_)
SubmittedItems(groups) ==
    IF groups = <<>> THEN 0
    ELSE Len(heap[Head(groups)].images) + SubmittedItems(Tail(groups))

C30_TotalImagesSubmitted ==
    report # None => report[1].totalImages = SubmittedItems(run.batches)

====
